---- MODULE Spec2Model ----
(***************************************************************************)
(* Twilio media stream <-> OpenAI Realtime bridge (src/index.js, the       *)
(* /media-stream WebSocket route): per-connection state, the handlers of   *)
(* both sockets, the local barge-in detector and the billing hook.         *)
(*                                                                         *)
(* One behaviour is one telephony connection.  Each action is one handler  *)
(* invocation (JavaScript handlers run to completion).  Timers are         *)
(* abstracted to "pending, may fire"; the wall clock (Date.now) and the    *)
(* Twilio media timestamp are explicit because the detector reads them.    *)
(***************************************************************************)
EXTENDS Integers, Sequences, FiniteSets, TLC

\* ---------------------------------------------------------------- bounds
MaxResponses == 2      \* response.created events per connection
MaxDeltas    == 2      \* audio deltas forwarded per connection
MaxMedia     == 5      \* inbound media frames per stream (per 'start')
ShortMedia   == 3      \* inbound media frames in the scenarios that need no more
MaxTicks     == 1      \* wall-clock advances
MaxStarts    == 2      \* telephony 'start' events per connection

\* ------------------------------------------------------ program constants
FAST_BARGE_WINDOW_BYTES   == 160
FAST_BARGE_COOLDOWN_MS    == 250
FAST_BARGE_FRAMES         == 2
FAST_BARGE_START_GUARD_MS == 200
FAST_BARGE_ABS_THRESH     == 3500
\* FAST_BARGE_RATIO = 1.2 = RatioNum / RatioDen
RatioNum == 6
RatioDen == 5
\* EMA weight a = 0.35 = AlphaNum / AlphaDen
AlphaNum == 7
AlphaDen == 20
\* PCMU 8 kHz: 8 bytes per millisecond
BytesPerMs == 8
\* PER_CALL_CAP_SECONDS = '600'
PER_CALL_CAP_S == 600

\* JavaScript null / '' / 0 (all falsy) for ids, handles and timestamps
Null == 0
\* Date.now() when the connection is accepted, and the clock's step
T0 == 1000
TickMs == 300
\* step of the Twilio media timestamp between two modelled frames
MediaStepMs == 150
\* the caller's number and the per-call allowance carried by ?max= / <Parameter>
User == 1
PerCallMax == 60

Min(a, b) == IF a < b THEN a ELSE b
Max(a, b) == IF a > b THEN a ELSE b

\* ------------------------------------------------------------- mu-law
Pow2(n) == IF n = 0 THEN 1 ELSE IF n = 1 THEN 2 ELSE IF n = 2 THEN 4
           ELSE IF n = 3 THEN 8 ELSE IF n = 4 THEN 16 ELSE IF n = 5 THEN 32
           ELSE IF n = 6 THEN 64 ELSE IF n = 7 THEN 128 ELSE IF n = 8 THEN 256
           ELSE IF n = 9 THEN 512 ELSE 1024

\* one sample of muLawAvgAbs: |pcm| of byte b
muLawAbs(b) ==
    LET u == 255 - b                      \* (~b) & 0xff
        sign == u \div 128                \* u & 0x80
        exponent == (u \div 16) % 8
        mantissa == u % 16
        magnitude == ((mantissa * 16) + 8) * Pow2(exponent + 3)
        pcm0 == magnitude - 132
        pcm == IF sign # 0 THEN -pcm0 ELSE pcm0
    IN IF pcm < 0 THEN -pcm ELSE pcm

RECURSIVE SumAbs(_, _)
SumAbs(buf, n) == IF n = 0 THEN 0 ELSE muLawAbs(buf[n]) + SumAbs(buf, n - 1)

\* average absolute amplitude over the first n = min(len, max(1, limit)) bytes.
\* The frames of the model have sums divisible by n, so sum / n is exact.
muLawAvgAbs(buf, limit) ==
    LET n == Min(Len(buf), Max(1, IF limit = 0 THEN Len(buf) ELSE limit))
    IN SumAbs(buf, n) \div n

\* base64 payloads, as the byte strings they decode to
Rep(b, n) == [i \in 1..n |-> b]
Quiet4   == Rep(255, 4)                         \* avg 68
Mixed4   == <<143, 255, 143, 255>>              \* avg 4064
Loud12   == Rep(143, 12)                        \* avg 8060
InQuiet  == Rep(255, 2)                         \* avg 68
InMid    == Rep(159, 2)                         \* avg 3964
InLoud   == Rep(158, 2)                         \* avg 12156
OutFrames == {Mixed4, Loud12}
InFrames  == {InQuiet, InMid, InLoud}

VARIABLES
    \* per-connection state of the /media-stream handler
    caller, maxThisCall, isUnlimited,
    streamSid, latestMediaTimestamp, timestampIsNumber, lastAssistantItem, markQueue,
    responseStartTimestampTwilio, callSid, callStartedAt, cutoffTimer, billed,
    hasActiveResponse, assistantStreaming, currentResponseId,
    dropAudioUntilNextResponse, userSpeaking, lastLocalBargeTs, fastBargeCount,
    assistantBytesSent, assistantOutAvgAbsEma, sizzleMode,
    \* sockets, timers, clock
    openAiWs, connection, pendingCutoffs, initPending, coldOpenPending, now,
    \* the reply of the /incoming-call webhook that led to this connection
    twiml,
    \* what the last handler sent on each leg
    aiOut, twOut,
    \* the accounting database (one user's Contact row, the activity log) and
    \* the accounting calls in flight
    Contact, UserActivity, calls,
    \* observation of the run (history, not program state)
    ev, hist, ledger

progVars == <<caller, maxThisCall, isUnlimited, streamSid, latestMediaTimestamp, timestampIsNumber,
              lastAssistantItem, markQueue, responseStartTimestampTwilio, callSid,
              callStartedAt, cutoffTimer, billed, hasActiveResponse,
              assistantStreaming, currentResponseId, dropAudioUntilNextResponse,
              userSpeaking, lastLocalBargeTs, fastBargeCount, assistantBytesSent,
              assistantOutAvgAbsEma, sizzleMode>>
envVars == <<openAiWs, connection, pendingCutoffs, initPending, coldOpenPending, now,
             twiml>>
licVars == <<Contact, UserActivity, calls, ledger>>
vars == <<progVars, envVars, licVars, aiOut, twOut, ev, hist>>

\* ------------------------------------------------------------ messages
AiMsg(t, a, b) == [type |-> t, a |-> a, b |-> b]
TwMsg(e, r)    == [event |-> e, rid |-> r]

\* const send = (obj) => openAiWs.readyState === WebSocket.OPEN && openAiWs.send(...)
send(msgs) == IF openAiWs = "OPEN" THEN msgs ELSE <<>>

\* ema(prev, v, a): prev === 0 ? v : prev*(1-a) + v*a, kept as an exact fraction
ema(prev, v) ==
    IF prev.num = 0 THEN [num |-> v, den |-> 1]
    ELSE [num |-> prev.num * (AlphaDen - AlphaNum) + v * AlphaNum * prev.den,
          den |-> prev.den * AlphaDen]

\* ---------------------------------------------------------- observation
\* hist.audioStart while no audio of a response is being forwarded
NoAudio == 0 - 1
BlankEv == [kind |-> "init", src |-> "", streaming |-> FALSE, active |-> FALSE,
            id |-> Null, item |-> Null, bytes |-> 0, fwdBytes |-> 0, open |-> FALSE,
            rid |-> Null, fwd |-> FALSE, late |-> FALSE, amp |-> 0,
            emaNum |-> 0, emaDen |-> 1, run |-> 0, fired |-> FALSE,
            second |-> FALSE, name |-> "", call |-> Null, respOpen |-> FALSE, sid |-> Null,
            ended |-> FALSE, ok |-> FALSE, payload |-> <<>>,
            audioStart |-> NoAudio, prevFire |-> 0, code |-> "",
            seconds |-> 0]
Ev(k) == [BlankEv EXCEPT !.kind = k]


\* -------------------------------------------- accounting (src/lib/license.mjs)
RBT_TO_SECONDS     == 3
UNLIMITED_SECONDS  == 315360000
TRIAL_INIT_SECONDS == 300

\* the accounting calls that can be in flight together
Procs == {1, 2}
\* the stored rows the caller's contact can have when the service starts
ContactRows ==
    [rbt : {0, 1, 5}, is_unlimited : {FALSE}] \cup {[rbt |-> 5, is_unlimited |-> TRUE]}
\* the seconds a session reports
UsageSeconds == {0, 3, 7}

\* seconds bought, as passed to addPaidSeconds
PaidSeconds == {0, 6}

\* Math.ceil(secs / RBT_TO_SECONDS)
tokensOf(secs) == (secs + RBT_TO_SECONDS - 1) \div RBT_TO_SECONDS

IdleCall == [fn |-> "none", pc |-> "idle", seconds |-> 0,
             c |-> [rbt |-> 0, is_unlimited |-> FALSE]]

\* no accounting call has been made yet
noCalls ==
    /\ UserActivity = <<>>
    /\ calls = [p \in Procs |-> IdleCall]
    /\ ledger = [start |-> Contact.rbt, deducted |-> 0]

\* a caller (a session ending, the webhook) enters deductSeconds or
\* ensureInitialTrialTopup; it runs up to its first await
Invoke(p, fn, seconds) ==
    /\ calls[p].pc = "idle"
    /\ calls' = [calls EXCEPT ![p] = [IdleCall EXCEPT !.fn = fn, !.pc = "start",
                                                      !.seconds = seconds]]
    /\ UNCHANGED <<Contact, UserActivity, ledger>>
    /\ UNCHANGED <<progVars, envVars, aiOut, twOut, ev, hist>>

\* const c = await getOrCreateContactForUser(userId): the row as stored now
getOrCreateContactForUser(p) ==
    /\ calls[p].pc = "start"
    /\ calls' = [calls EXCEPT ![p].c = Contact, ![p].pc = "loaded"]
    /\ UNCHANGED <<Contact, UserActivity, ledger>>
    /\ UNCHANGED <<progVars, envVars, aiOut, twOut, ev, hist>>

\* after = Math.max(0, before - tokens), before taken from the row read earlier
deductAfter(p) == Max(0, Max(0, calls[p].c.rbt) - tokensOf(Max(0, calls[p].seconds)))

\* deductSeconds from the row it read to the end of Contact.update; ok = FALSE is
\* a write that throws (caught, logged)
deductSeconds(p, ok) ==
    /\ calls[p].fn = "deductSeconds" /\ calls[p].pc = "loaded"
    /\ LET tokens == tokensOf(Max(0, calls[p].seconds)) IN
       IF calls[p].c.is_unlimited
       THEN /\ UserActivity' =
                  IF ok THEN Append(UserActivity,
                                    [action_type |-> "voice_call", rbt_change |-> 0])
                  ELSE UserActivity
            /\ calls' = [calls EXCEPT ![p].pc = "done"]
            /\ UNCHANGED <<Contact, ledger>>
       ELSE IF tokens <= 0
       THEN /\ calls' = [calls EXCEPT ![p].pc = "done"]
            /\ UNCHANGED <<Contact, UserActivity, ledger>>
       ELSE IF ok
       THEN /\ Contact' = [Contact EXCEPT !.rbt = deductAfter(p)]
            /\ ledger' = [ledger EXCEPT !.deducted = @ + tokens]
            /\ calls' = [calls EXCEPT ![p].pc = "updated"]
            /\ UNCHANGED UserActivity
       ELSE /\ calls' = [calls EXCEPT ![p].pc = "done"]
            /\ UNCHANGED <<Contact, UserActivity, ledger>>
    /\ UNCHANGED <<progVars, envVars, aiOut, twOut, ev, hist>>

\* await UserActivity.create({action_type: 'voice_call', action_outcome: 'deduct'})
deductLog(p, ok) ==
    /\ calls[p].fn = "deductSeconds" /\ calls[p].pc = "updated"
    /\ UserActivity' =
          IF ok THEN Append(UserActivity,
                            [action_type |-> "voice_call",
                             rbt_change |-> 0 - tokensOf(Max(0, calls[p].seconds))])
          ELSE UserActivity
    /\ calls' = [calls EXCEPT ![p].pc = "done"]
    /\ UNCHANGED <<Contact, ledger>>
    /\ UNCHANGED <<progVars, envVars, aiOut, twOut, ev, hist>>

\* after = before + tokens, before taken from the row read earlier
addPaidAfter(p) == Max(0, calls[p].c.rbt) + tokensOf(Max(0, calls[p].seconds))

\* addPaidSeconds from the row it read to the end of Contact.update; ok = FALSE is
\* a write that throws (caught, logged)
addPaidSeconds(p, ok) ==
    /\ calls[p].fn = "addPaidSeconds" /\ calls[p].pc = "loaded"
    /\ IF tokensOf(Max(0, calls[p].seconds)) <= 0
       THEN /\ calls' = [calls EXCEPT ![p].pc = "done"]
            /\ UNCHANGED Contact
       ELSE IF ok
       THEN /\ Contact' = [Contact EXCEPT !.rbt = addPaidAfter(p)]
            /\ calls' = [calls EXCEPT ![p].pc = "updated"]
       ELSE /\ calls' = [calls EXCEPT ![p].pc = "done"]
            /\ UNCHANGED Contact
    /\ UNCHANGED <<UserActivity, ledger>>
    /\ UNCHANGED <<progVars, envVars, aiOut, twOut, ev, hist>>

\* await UserActivity.create({action_type: 'topup', action_outcome: 'seconds_to_rbt'})
addPaidLog(p, ok) ==
    /\ calls[p].fn = "addPaidSeconds" /\ calls[p].pc = "updated"
    /\ UserActivity' =
          IF ok THEN Append(UserActivity,
                            [action_type |-> "topup",
                             rbt_change |-> tokensOf(Max(0, calls[p].seconds))])
          ELSE UserActivity
    /\ calls' = [calls EXCEPT ![p].pc = "done"]
    /\ UNCHANGED <<Contact, ledger>>
    /\ UNCHANGED <<progVars, envVars, aiOut, twOut, ev, hist>>

\* ensureEntitlement(userId).paidLeft for the row as stored now
ensureEntitlement ==
    IF Contact.is_unlimited THEN UNLIMITED_SECONDS
    ELSE Max(0, Contact.rbt) * RBT_TO_SECONDS

\* totalSecondsLeft(userId) = Math.max(0, trialLeft + paidLeft), trialLeft = 0
totalSecondsLeft == Max(0, 0 + ensureEntitlement)

\* a 'trial_topup' row is in the activity log
priorTrial == \E i \in 1..Len(UserActivity) : UserActivity[i].action_type = "trial_topup"

\* ensureInitialTrialTopup from the row it read to the answer of
\* UserActivity.findOne({action_type: 'trial_topup'})
trialCheck(p) ==
    /\ calls[p].fn = "ensureInitialTrialTopup" /\ calls[p].pc = "loaded"
    /\ calls' = [calls EXCEPT ![p].pc =
                    IF \/ calls[p].c.is_unlimited
                       \/ Max(0, calls[p].seconds) <= 0
                       \/ priorTrial
                       \/ tokensOf(Max(0, calls[p].seconds)) <= 0
                    THEN "done" ELSE "checked"]
    /\ UNCHANGED <<Contact, UserActivity, ledger>>
    /\ UNCHANGED <<progVars, envVars, aiOut, twOut, ev, hist>>

\* await Contact.update({rbt: before + tokens}); a write that throws ends the call
trialUpdate(p, ok) ==
    /\ calls[p].fn = "ensureInitialTrialTopup" /\ calls[p].pc = "checked"
    /\ IF ok
       THEN /\ Contact' = [Contact EXCEPT !.rbt = Max(0, calls[p].c.rbt)
                                                    + tokensOf(Max(0, calls[p].seconds))]
            /\ calls' = [calls EXCEPT ![p].pc = "updated"]
       ELSE /\ calls' = [calls EXCEPT ![p].pc = "done"]
            /\ UNCHANGED Contact
    /\ UNCHANGED <<UserActivity, ledger>>
    /\ UNCHANGED <<progVars, envVars, aiOut, twOut, ev, hist>>

\* await UserActivity.create({action_type: 'trial_topup'}); a write that throws
\* is caught by the function's try/catch
trialLog(p, ok) ==
    /\ calls[p].fn = "ensureInitialTrialTopup" /\ calls[p].pc = "updated"
    /\ UserActivity' =
          IF ok THEN Append(UserActivity,
                            [action_type |-> "trial_topup",
                             rbt_change |-> tokensOf(Max(0, calls[p].seconds))])
          ELSE UserActivity
    /\ calls' = [calls EXCEPT ![p].pc = "done"]
    /\ UNCHANGED <<Contact, ledger>>
    /\ UNCHANGED <<progVars, envVars, aiOut, twOut, ev, hist>>


\* the per-connection state when the media-stream handler has been entered
InitConnection ==
    /\ caller \in {Null, User}                 \* ?caller=
    /\ maxThisCall \in {0, PerCallMax}         \* ?max=
    /\ isUnlimited \in BOOLEAN                 \* ?unlimited=
    /\ streamSid = Null
    /\ latestMediaTimestamp = 0 /\ timestampIsNumber = TRUE
    /\ lastAssistantItem = Null
    /\ markQueue = <<>>
    /\ responseStartTimestampTwilio = Null
    /\ callSid = Null
    /\ callStartedAt = Null
    /\ cutoffTimer = Null
    /\ billed = FALSE
    /\ hasActiveResponse = FALSE
    /\ assistantStreaming = FALSE
    /\ currentResponseId = Null
    /\ dropAudioUntilNextResponse = FALSE
    /\ userSpeaking = FALSE
    /\ lastLocalBargeTs = 0
    /\ fastBargeCount = 0
    /\ assistantBytesSent = 0
    /\ assistantOutAvgAbsEma = [num |-> 0, den |-> 1]
    /\ sizzleMode = FALSE                      \* RABBOT_SIZZLE_DEFAULT = 'off'
    /\ openAiWs = "CONNECTING"
    /\ connection = "OPEN"
    /\ pendingCutoffs = {}
    /\ initPending = FALSE
    /\ coldOpenPending = FALSE
    /\ now = T0
    /\ twiml = [kind |-> "stream", caller |-> caller, max |-> maxThisCall,
                unlimited |-> isUnlimited]
    /\ aiOut = <<>>
    /\ twOut = <<>>
    /\ ev = BlankEv
    /\ hist = [deductCalls |-> 0, deductOk |-> FALSE, cancelled |-> {},
               ended |-> FALSE, final |-> FALSE, survivors |-> {}, respOpen |-> FALSE, reportedBy |-> {}, runLen |-> 0,
               fwdSinceCreated |-> 0, audioStart |-> NoAudio, respCount |-> 0, nDeltas |-> 0,
               nStarts |-> 0, nTicks |-> 0, asked |-> TRUE, left |-> PerCallMax]

\* a connection of a caller whose contact holds 5 tokens, no accounting call made
Init == InitConnection /\ Contact = [rbt |-> 5, is_unlimited |-> FALSE] /\ noCalls

\* ---------------------------------------------------- /incoming-call webhook
\* the admission test letting a caller with nothing left through
outOfSeconds_Strict(secondsLeft) == secondsLeft < 0

\* if (secondsLeft <= 0)
outOfSeconds(secondsLeft) == secondsLeft <= 0

\* the budget without the absolute per-call cap
allowThisCall_NoCap(secondsLeft) == secondsLeft

\* Math.min(secondsLeft, cap), cap = PER_CALL_CAP_S > 0 ? PER_CALL_CAP_S : secondsLeft
allowThisCall(secondsLeft) ==
    Min(secondsLeft, IF PER_CALL_CAP_S > 0 THEN PER_CALL_CAP_S ELSE secondsLeft)

\* the TwiML the webhook replies with: <Say>..<Hangup/>, or <Connect><Stream>
incomingCallReply(from, secondsLeft, unlimited) ==
    IF outOfSeconds(secondsLeft)
    THEN [kind |-> "say_hangup", caller |-> Null, max |-> 0, unlimited |-> FALSE]
    ELSE [kind |-> "stream", caller |-> from, max |-> allowThisCall(secondsLeft),
          unlimited |-> unlimited]

\* what totalSecondsLeft(from) may return: Math.max(0, ...)
SecondsLeft == {0, 30, 700}

\* the state before any call: no webhook reply, no media-stream connection
InitAdmission ==
    /\ caller = Null /\ maxThisCall = 0 /\ isUnlimited = FALSE
    /\ streamSid = Null /\ latestMediaTimestamp = 0 /\ timestampIsNumber = TRUE /\ lastAssistantItem = Null
    /\ markQueue = <<>> /\ responseStartTimestampTwilio = Null /\ callSid = Null
    /\ callStartedAt = Null /\ cutoffTimer = Null /\ billed = FALSE
    /\ hasActiveResponse = FALSE /\ assistantStreaming = FALSE
    /\ currentResponseId = Null /\ dropAudioUntilNextResponse = FALSE
    /\ userSpeaking = FALSE /\ lastLocalBargeTs = 0 /\ fastBargeCount = 0
    /\ assistantBytesSent = 0 /\ assistantOutAvgAbsEma = [num |-> 0, den |-> 1]
    /\ sizzleMode = FALSE
    /\ openAiWs = "NONE" /\ connection = "NONE"
    /\ pendingCutoffs = {} /\ initPending = FALSE /\ coldOpenPending = FALSE
    /\ now = T0
    /\ twiml = [kind |-> "none", caller |-> Null, max |-> 0, unlimited |-> FALSE]
    /\ aiOut = <<>> /\ twOut = <<>> /\ ev = BlankEv
    /\ hist = [deductCalls |-> 0, deductOk |-> FALSE, cancelled |-> {},
               ended |-> FALSE, final |-> FALSE, survivors |-> {}, respOpen |-> FALSE,
               reportedBy |-> {}, runLen |-> 0, fwdSinceCreated |-> 0, audioStart |-> NoAudio,
               respCount |-> 0, nDeltas |-> 0, nStarts |-> 0, nTicks |-> 0,
               asked |-> FALSE, left |-> 0]
    /\ Contact = [rbt |-> 5, is_unlimited |-> FALSE] /\ noCalls

\* fastify.all('/incoming-call'): the reply for a caller with secondsLeft seconds
IncomingCall(from, secondsLeft, unlimited) ==
    /\ twiml.kind = "none"
    /\ twiml' = incomingCallReply(from, secondsLeft, unlimited)
    /\ hist' = [hist EXCEPT !.asked = TRUE, !.left = secondsLeft]
    /\ aiOut' = <<>> /\ twOut' = <<>>
    /\ ev' = Ev("incoming-call")
    /\ UNCHANGED <<progVars, openAiWs, connection, pendingCutoffs, initPending,
                   coldOpenPending, now>>
    /\ UNCHANGED licVars

\* Twilio follows <Connect><Stream url=...>: the /media-stream handler runs
StreamConnect ==
    /\ twiml.kind = "stream"
    /\ connection = "NONE"
    /\ connection' = "OPEN"
    /\ openAiWs' = "CONNECTING"
    /\ caller' = twiml.caller
    /\ maxThisCall' = twiml.max
    /\ isUnlimited' = twiml.unlimited
    /\ aiOut' = <<>> /\ twOut' = <<>>
    /\ ev' = Ev("connect")
    /\ UNCHANGED <<streamSid, latestMediaTimestamp, timestampIsNumber, lastAssistantItem, markQueue,
                   responseStartTimestampTwilio, callSid, callStartedAt, cutoffTimer,
                   billed, hasActiveResponse, assistantStreaming, currentResponseId,
                   dropAudioUntilNextResponse, userSpeaking, lastLocalBargeTs,
                   fastBargeCount, assistantBytesSent, assistantOutAvgAbsEma,
                   sizzleMode, pendingCutoffs, initPending, coldOpenPending, now,
                   twiml, hist>>
    /\ UNCHANGED licVars

\* ------------------------------------------------------------- billing
\* billUsage without the test of callStartedAt
callStartedAtNotSet_Never == FALSE

\* if (!callStartedAt) return
callStartedAtNotSet == callStartedAt = Null

\* billUsage without its one-shot guard `if (billed) return`
billSkip_NoOneShot == caller = Null \/ callStartedAtNotSet

\* the three early returns of billUsage
billSkip == billed \/ caller = Null \/ callStartedAtNotSet

\* deductSeconds is reached unless the caller is unlimited
deductInvoked == ~billSkip /\ ~isUnlimited

\* Math.ceil(a / b) for b > 0
ceilDiv(a, b) == (a + b - 1) \div b

\* Math.ceil((Date.now() - callStartedAt) / 1000)
wall == ceilDiv(now - callStartedAt, 1000)

\* Number.isFinite(latestMediaTimestamp) ? latestMediaTimestamp : 0; a string of
\* digits is not finite for Number.isFinite, which does not coerce
twilioMs == IF timestampIsNumber THEN latestMediaTimestamp ELSE 0

\* Math.ceil((twilioMs || 0) / 1000)
fromTwilio == ceilDiv(twilioMs, 1000)

\* seconds = Math.max(1, Math.max(wall, fromTwilio))
seconds == Max(1, Max(wall, fromTwilio))

\* billUsage(reason); ok is the outcome of the awaited deductSeconds
billUsage(ok) ==
    /\ billed' = IF billSkip THEN billed ELSE TRUE
    /\ hist' = [hist EXCEPT
                  !.ended = TRUE,
                  !.final = TRUE,
                  !.survivors = @ \cup pendingCutoffs',
                  !.deductCalls = IF deductInvoked THEN @ + 1 ELSE @,
                  !.deductOk = @ \/ (deductInvoked /\ ok)]

DeductOutcomes == IF deductInvoked THEN BOOLEAN ELSE {FALSE}

\* if (cutoffTimer) { clearTimeout(cutoffTimer); cutoffTimer = null; }
clearCutoff ==
    /\ pendingCutoffs' = IF cutoffTimer # Null THEN pendingCutoffs \ {cutoffTimer}
                         ELSE pendingCutoffs
    /\ cutoffTimer' = Null

\* if (openAiWs.readyState === WebSocket.OPEN) openAiWs.close();
closeAi == openAiWs' = IF openAiWs = "OPEN" THEN "CLOSING" ELSE openAiWs

\* ----------------------------------------------------- telephony events
\* customParameters of the 'start' event
StartParams == {[caller |-> Null, max |-> 0, unlimited |-> FALSE],
                [caller |-> User, max |-> PerCallMax, unlimited |-> FALSE],
                [caller |-> User, max |-> PerCallMax, unlimited |-> TRUE]}

TwStart(cp, sid) ==
    /\ connection # "CLOSED"
    /\ hist.nStarts < MaxStarts
    /\ streamSid' = 1
    /\ callSid' = sid
    /\ caller' = IF caller = Null /\ cp.caller # Null THEN cp.caller ELSE caller
    /\ maxThisCall' = IF maxThisCall = 0 /\ cp.max # 0 THEN cp.max ELSE maxThisCall
    /\ isUnlimited' = (isUnlimited \/ cp.unlimited)
    /\ responseStartTimestampTwilio' = Null
    /\ latestMediaTimestamp' = 0 /\ timestampIsNumber' = TRUE
    /\ callStartedAt' = now
    /\ IF maxThisCall' > 0 /\ sid # Null
       THEN /\ cutoffTimer' = hist.nStarts + 1
            /\ pendingCutoffs' = pendingCutoffs \cup {hist.nStarts + 1}
       ELSE UNCHANGED <<cutoffTimer, pendingCutoffs>>
    /\ hist' = [hist EXCEPT !.nStarts = @ + 1, !.final = FALSE]
    /\ aiOut' = <<>> /\ twOut' = <<>>
    /\ ev' = Ev("start")
    /\ UNCHANGED <<sizzleMode, lastAssistantItem, markQueue, billed,
                   hasActiveResponse, assistantStreaming, currentResponseId,
                   dropAudioUntilNextResponse, userSpeaking, lastLocalBargeTs,
                   fastBargeCount, assistantBytesSent, assistantOutAvgAbsEma,
                   openAiWs, connection, initPending, coldOpenPending, now, twiml>>
    /\ UNCHANGED licVars

TwMark ==
    /\ connection # "CLOSED"
    /\ markQueue' = IF Len(markQueue) > 0 THEN Tail(markQueue) ELSE markQueue
    /\ aiOut' = <<>> /\ twOut' = <<>>
    /\ ev' = Ev("mark")
    /\ UNCHANGED <<sizzleMode, caller, maxThisCall, isUnlimited, streamSid, latestMediaTimestamp, timestampIsNumber,
                   lastAssistantItem, responseStartTimestampTwilio, callSid,
                   callStartedAt, cutoffTimer, billed, hasActiveResponse,
                   assistantStreaming, currentResponseId, dropAudioUntilNextResponse,
                   userSpeaking, lastLocalBargeTs, fastBargeCount, assistantBytesSent,
                   assistantOutAvgAbsEma, envVars, hist>>
    /\ UNCHANGED licVars

TwStop ==
    /\ connection # "CLOSED"
    /\ closeAi
    /\ clearCutoff
    /\ \E ok \in DeductOutcomes :
          /\ billUsage(ok)
          /\ ev' = [Ev("stop") EXCEPT !.ok = ok, !.fired = deductInvoked,
                                      !.seconds = IF deductInvoked THEN seconds ELSE 0,
                                      !.ended = hist.ended]
    /\ aiOut' = <<>> /\ twOut' = <<>>
    /\ UNCHANGED <<sizzleMode, caller, maxThisCall, isUnlimited, streamSid, latestMediaTimestamp, timestampIsNumber,
                   lastAssistantItem, markQueue, responseStartTimestampTwilio, callSid,
                   callStartedAt, hasActiveResponse, assistantStreaming,
                   currentResponseId, dropAudioUntilNextResponse, userSpeaking,
                   lastLocalBargeTs, fastBargeCount, assistantBytesSent,
                   assistantOutAvgAbsEma, connection, initPending, coldOpenPending, now, twiml>>
    /\ UNCHANGED licVars

\* connection.on('close')
TwClose ==
    /\ connection # "CLOSED"
    /\ connection' = "CLOSED"
    /\ clearCutoff
    /\ \E ok \in DeductOutcomes :
          /\ billUsage(ok)
          /\ ev' = [Ev("close") EXCEPT !.ok = ok, !.fired = deductInvoked,
                                      !.seconds = IF deductInvoked THEN seconds ELSE 0,
                                       !.ended = hist.ended]
    /\ closeAi
    /\ aiOut' = <<>> /\ twOut' = <<>>
    /\ UNCHANGED <<sizzleMode, caller, maxThisCall, isUnlimited, streamSid, latestMediaTimestamp, timestampIsNumber,
                   lastAssistantItem, markQueue, responseStartTimestampTwilio, callSid,
                   callStartedAt, hasActiveResponse, assistantStreaming,
                   currentResponseId, dropAudioUntilNextResponse, userSpeaking,
                   lastLocalBargeTs, fastBargeCount, assistantBytesSent,
                   assistantOutAvgAbsEma, initPending, coldOpenPending, now, twiml>>
    /\ UNCHANGED licVars

\* the setTimeout callback of 'start' (the hang-up TwiML and the SMS)
CutoffFire(t) ==
    /\ t \in pendingCutoffs
    /\ pendingCutoffs' = pendingCutoffs \ {t}
    /\ aiOut' = <<>> /\ twOut' = <<>>
    /\ ev' = [Ev("cutoff") EXCEPT !.ended = (t \in hist.survivors)]
    /\ UNCHANGED <<progVars, openAiWs, connection, initPending, coldOpenPending,
                   now, hist, twiml>>
    /\ UNCHANGED licVars

Tick ==
    /\ hist.nTicks < MaxTicks
    /\ now' = now + TickMs
    /\ hist' = [hist EXCEPT !.nTicks = @ + 1]
    /\ aiOut' = <<>> /\ twOut' = <<>>
    /\ ev' = Ev("tick")
    /\ UNCHANGED <<progVars, openAiWs, connection, pendingCutoffs, initPending,
                   coldOpenPending, twiml>>
    /\ UNCHANGED licVars

\* --------------------------------------------------- handleSpeechStartedEvent
shouldCancel == hasActiveResponse \/ assistantStreaming \/ currentResponseId # Null

\* response.cancel that never names the response
cancelMsgs_Unscoped ==
    IF shouldCancel THEN <<AiMsg("response.cancel", Null, 0)>> ELSE <<>>

\* response.cancel, scoped to currentResponseId when there is one (a = response_id)
cancelMsgs ==
    IF shouldCancel THEN <<AiMsg("response.cancel", currentResponseId, 0)>> ELSE <<>>

\* the offset rounded up instead of down
audio_end_ms_Ceil == (assistantBytesSent + BytesPerMs - 1) \div BytesPerMs

\* Math.floor(assistantBytesSent / 8)
audio_end_ms == assistantBytesSent \div BytesPerMs

\* conversation.item.truncate (a = item_id, b = audio_end_ms)
truncateMsgs ==
    IF lastAssistantItem # Null /\ assistantBytesSent > 0
    THEN <<AiMsg("conversation.item.truncate", lastAssistantItem, audio_end_ms)>>
    ELSE <<>>

\* everything handleSpeechStartedEvent passes to send(), in order
speechStartedMsgs == cancelMsgs \o truncateMsgs

\* everything handleSpeechStartedEvent sends to the telephony leg
speechStartedTwilio == <<>>

\* the handler leaving the reset of the mark queue to a later acknowledgment
speechStartedState_KeepsMarks ==
    /\ dropAudioUntilNextResponse' = TRUE
    /\ userSpeaking' = TRUE
    /\ markQueue' = markQueue
    /\ lastAssistantItem' = Null
    /\ responseStartTimestampTwilio' = Null
    /\ assistantStreaming' = FALSE
    /\ hasActiveResponse' = FALSE
    /\ fastBargeCount' = 0

\* the assignments of handleSpeechStartedEvent
speechStartedState ==
    /\ dropAudioUntilNextResponse' = TRUE
    /\ userSpeaking' = TRUE
    /\ markQueue' = <<>>
    /\ lastAssistantItem' = Null
    /\ responseStartTimestampTwilio' = Null
    /\ assistantStreaming' = FALSE
    /\ hasActiveResponse' = FALSE
    /\ fastBargeCount' = 0

\* observation of one speech-detected event, taken before the handler runs
SpeechEv(src) ==
    [Ev("speech") EXCEPT
        !.src = src, !.streaming = assistantStreaming, !.active = shouldCancel,
        !.id = currentResponseId, !.item = lastAssistantItem,
        !.bytes = assistantBytesSent, !.fwdBytes = hist.fwdSinceCreated,
        !.open = (openAiWs = "OPEN"), !.respOpen = hist.respOpen, !.sid = streamSid,
        !.second = (hist.respOpen /\ hist.reportedBy \ {src} # {}),
        !.audioStart = hist.audioStart]

SpeechHist(src) ==
    [hist EXCEPT
        !.reportedBy = IF hist.respOpen THEN @ \cup {src} ELSE @,
        !.cancelled = IF openAiWs = "OPEN" /\ shouldCancel /\ currentResponseId # Null
                      THEN @ \cup {currentResponseId} ELSE @,
        !.runLen = 0, !.audioStart = NoAudio]

\* ------------------------------------------------------------ AI-leg events
AiDelivers == openAiWs \in {"OPEN", "CLOSING"}

\* openAiWs.on('open')
AiOpen ==
    /\ openAiWs = "CONNECTING"
    /\ openAiWs' = "OPEN"
    /\ initPending' = TRUE
    /\ aiOut' = <<>> /\ twOut' = <<>>
    /\ ev' = Ev("open")
    /\ UNCHANGED <<progVars, connection, pendingCutoffs, coldOpenPending, now, hist, twiml>>
    /\ UNCHANGED licVars

\* setTimeout(initializeSession, 80)
InitializeSession ==
    /\ initPending
    /\ initPending' = FALSE
    /\ coldOpenPending' = TRUE                   \* COLD_OPEN = 'true'
    /\ aiOut' = send(<<AiMsg("session.update", 0, 0)>>)
    /\ twOut' = <<>>
    /\ ev' = Ev("initializeSession")
    /\ UNCHANGED <<progVars, openAiWs, connection, pendingCutoffs, now, hist, twiml>>
    /\ UNCHANGED licVars

\* setTimeout(sendColdOpen, 120)
SendColdOpen ==
    /\ coldOpenPending
    /\ coldOpenPending' = FALSE
    /\ aiOut' = send(<<AiMsg("response.create", 0, 0)>>)
    /\ hasActiveResponse' = TRUE
    /\ twOut' = <<>>
    /\ ev' = [Ev("sendColdOpen") EXCEPT !.active = hasActiveResponse]
    /\ UNCHANGED <<sizzleMode, caller, maxThisCall, isUnlimited, streamSid, latestMediaTimestamp, timestampIsNumber,
                   lastAssistantItem, markQueue, responseStartTimestampTwilio, callSid,
                   callStartedAt, cutoffTimer, billed, assistantStreaming,
                   currentResponseId, dropAudioUntilNextResponse, userSpeaking,
                   lastLocalBargeTs, fastBargeCount, assistantBytesSent,
                   assistantOutAvgAbsEma, openAiWs, connection, pendingCutoffs,
                   initPending, now, hist, twiml>>
    /\ UNCHANGED licVars

\* response.created; the service numbers its responses 1, 2, ...
AiResponseCreated ==
    /\ AiDelivers
    /\ hist.respCount < MaxResponses
    /\ hasActiveResponse' = TRUE
    /\ currentResponseId' = hist.respCount + 1
    /\ dropAudioUntilNextResponse' = FALSE
    /\ assistantBytesSent' = 0
    /\ hist' = [hist EXCEPT !.respCount = @ + 1, !.respOpen = TRUE,
                            !.reportedBy = {}, !.fwdSinceCreated = 0,
                            !.audioStart = NoAudio]
    /\ aiOut' = <<>> /\ twOut' = <<>>
    /\ ev' = [Ev("response.created") EXCEPT !.active = hasActiveResponse,
                                            !.id = currentResponseId,
                                            !.bytes = assistantBytesSent]
    /\ UNCHANGED <<sizzleMode, caller, maxThisCall, isUnlimited, streamSid, latestMediaTimestamp, timestampIsNumber,
                   lastAssistantItem, markQueue, responseStartTimestampTwilio, callSid,
                   callStartedAt, cutoffTimer, billed, assistantStreaming, userSpeaking,
                   lastLocalBargeTs, fastBargeCount, assistantOutAvgAbsEma, envVars>>
    /\ UNCHANGED licVars

\* the gate of the audio-delta branch
dropDelta == dropAudioUntilNextResponse \/ userSpeaking

\* sendMark(): what goes to the telephony leg and what is queued
sendMarkOut == IF streamSid = Null THEN <<>> ELSE <<TwMsg("mark", Null)>>
sendMarkQueue == IF streamSid = Null THEN markQueue ELSE Append(markQueue, "responsePart")

\* the frame sent to the telephony leg twice
audioDelta_Twice(rid, frame) ==
    <<[event |-> "media", rid |-> rid, payload |-> frame],
      [event |-> "media", rid |-> rid, payload |-> frame]>>

\* connection.send(JSON.stringify(audioDelta)): one media frame with the delta's
\* payload (rid names the response the delta belongs to)
audioDelta(rid, frame) == <<[event |-> "media", rid |-> rid, payload |-> frame]>>

\* the counter overwritten instead of incremented
bytesAfterDelta_Overwrite(frame) == Len(frame)

\* assistantBytesSent += Buffer.from(response.delta, 'base64').length
bytesAfterDelta(frame) == assistantBytesSent + Len(frame)

\* response.output_audio.delta of response rid (item_id = rid), payload frame
AiAudioDelta(rid, frame) ==
    /\ AiDelivers
    /\ rid \in 1..hist.respCount
    /\ IF dropDelta
       THEN /\ twOut' = <<>>
            /\ ev' = [Ev("delta") EXCEPT !.rid = rid, !.late = (rid \in hist.cancelled)]
            /\ UNCHANGED <<progVars, hist>>
       ELSE /\ hist.nDeltas < MaxDeltas
            /\ twOut' = audioDelta(rid, frame) \o sendMarkOut
            /\ assistantBytesSent' = bytesAfterDelta(frame)
            /\ assistantOutAvgAbsEma' =
                  ema(assistantOutAvgAbsEma, muLawAvgAbs(frame, FAST_BARGE_WINDOW_BYTES))
            /\ responseStartTimestampTwilio' =
                  IF responseStartTimestampTwilio = Null THEN latestMediaTimestamp
                  ELSE responseStartTimestampTwilio
            /\ assistantStreaming' = TRUE
            /\ lastAssistantItem' = rid
            /\ markQueue' = sendMarkQueue
            /\ hist' = [hist EXCEPT !.nDeltas = @ + 1,
                                    !.fwdSinceCreated = @ + Len(frame),
                                    !.audioStart =
                                        IF hist.fwdSinceCreated = 0
                                        THEN latestMediaTimestamp ELSE @]
            /\ ev' = [Ev("delta") EXCEPT !.rid = rid, !.fwd = TRUE,
                                         !.payload = frame,
                                         !.late = (rid \in hist.cancelled)]
            /\ UNCHANGED <<sizzleMode, caller, maxThisCall, isUnlimited, streamSid,
                           latestMediaTimestamp, timestampIsNumber, callSid, callStartedAt, cutoffTimer,
                           billed, hasActiveResponse, currentResponseId,
                           dropAudioUntilNextResponse, userSpeaking, lastLocalBargeTs,
                           fastBargeCount>>
    /\ aiOut' = <<>>
    /\ UNCHANGED envVars
    /\ UNCHANGED licVars

\* response.done
AiResponseDone ==
    /\ AiDelivers
    /\ hasActiveResponse' = FALSE
    /\ assistantStreaming' = FALSE
    /\ currentResponseId' = Null
    /\ dropAudioUntilNextResponse' = FALSE
    /\ assistantBytesSent' = 0
    /\ hist' = [hist EXCEPT !.respOpen = FALSE, !.reportedBy = {},
                            !.audioStart = NoAudio]
    /\ aiOut' = <<>> /\ twOut' = <<>>
    /\ ev' = [Ev("response.done") EXCEPT !.bytes = assistantBytesSent]
    /\ UNCHANGED <<sizzleMode, caller, maxThisCall, isUnlimited, streamSid, latestMediaTimestamp, timestampIsNumber,
                   lastAssistantItem, markQueue, responseStartTimestampTwilio, callSid,
                   callStartedAt, cutoffTimer, billed, userSpeaking, lastLocalBargeTs,
                   fastBargeCount, assistantOutAvgAbsEma, envVars>>
    /\ UNCHANGED licVars

\* response.output_item.added with item.id = item
AiOutputItemAdded(item) ==
    /\ AiDelivers
    /\ item \in 1..hist.respCount
    /\ lastAssistantItem' = item
    /\ aiOut' = <<>> /\ twOut' = <<>>
    /\ ev' = Ev("output_item.added")
    /\ UNCHANGED <<sizzleMode, caller, maxThisCall, isUnlimited, streamSid, latestMediaTimestamp, timestampIsNumber,
                   markQueue, responseStartTimestampTwilio, callSid, callStartedAt,
                   cutoffTimer, billed, hasActiveResponse, assistantStreaming,
                   currentResponseId, dropAudioUntilNextResponse, userSpeaking,
                   lastLocalBargeTs, fastBargeCount, assistantBytesSent,
                   assistantOutAvgAbsEma, envVars, hist>>
    /\ UNCHANGED licVars

\* input_audio_buffer.speech_started
AiSpeechStarted ==
    /\ AiDelivers
    /\ aiOut' = send(speechStartedMsgs)
    /\ twOut' = speechStartedTwilio
    /\ speechStartedState
    /\ ev' = SpeechEv("server")
    /\ hist' = SpeechHist("server")
    /\ UNCHANGED <<sizzleMode, caller, maxThisCall, isUnlimited, streamSid, latestMediaTimestamp, timestampIsNumber,
                   callSid, callStartedAt, cutoffTimer, billed, currentResponseId,
                   lastLocalBargeTs, assistantBytesSent, assistantOutAvgAbsEma, envVars>>
    /\ UNCHANGED licVars

\* input_audio_buffer.speech_stopped / input_audio_buffer.committed
AiSpeechStopped ==
    /\ AiDelivers
    /\ userSpeaking' = FALSE
    /\ aiOut' = <<>> /\ twOut' = <<>>
    /\ ev' = Ev("speech_stopped")
    /\ UNCHANGED <<sizzleMode, caller, maxThisCall, isUnlimited, streamSid, latestMediaTimestamp, timestampIsNumber,
                   lastAssistantItem, markQueue, responseStartTimestampTwilio, callSid,
                   callStartedAt, cutoffTimer, billed, hasActiveResponse,
                   assistantStreaming, currentResponseId, dropAudioUntilNextResponse,
                   lastLocalBargeTs, fastBargeCount, assistantBytesSent,
                   assistantOutAvgAbsEma, envVars, hist>>
    /\ UNCHANGED licVars

\* the AI socket fails: ws sets readyState CLOSING and detaches the receiver, the
\* 'error' handler only logs, 'close' follows.  "FAILED" is that CLOSING state;
\* "CLOSING" is the one after openAiWs.close(), in which messages still arrive.
AiSocketError ==
    /\ openAiWs \in {"CONNECTING", "OPEN"}
    /\ openAiWs' = "FAILED"
    /\ aiOut' = <<>> /\ twOut' = <<>>
    /\ ev' = Ev("ai.error")
    /\ UNCHANGED <<progVars, connection, pendingCutoffs, initPending, coldOpenPending,
                   now, hist, twiml>>
    /\ UNCHANGED licVars

\* the codes an 'error' event of the AI service can carry
ErrorCodes == {"response_cancel_not_active", "invalid_value"}

\* the error branch treating the event as the end of the active response
errorEvent_ClearsActive(code) ==
    /\ hasActiveResponse' = FALSE
    /\ UNCHANGED <<sizzleMode, caller, maxThisCall, isUnlimited, streamSid,
                   latestMediaTimestamp, timestampIsNumber, lastAssistantItem, markQueue,
                   responseStartTimestampTwilio, callSid, callStartedAt, cutoffTimer,
                   billed, assistantStreaming, currentResponseId,
                   dropAudioUntilNextResponse, userSpeaking, lastLocalBargeTs,
                   fastBargeCount, assistantBytesSent, assistantOutAvgAbsEma, envVars>>

\* if (response.type === 'error'): a debug line for response_cancel_not_active, a
\* console.error for any other code; no assignment, no send, no close
errorEvent(code) == UNCHANGED <<progVars, envVars>>

\* an event {type: 'error', error: {code}} from the AI service
AiErrorEvent(code) ==
    /\ AiDelivers
    /\ errorEvent(code)
    /\ aiOut' = <<>> /\ twOut' = <<>>
    /\ ev' = [Ev("error") EXCEPT !.code = code, !.active = shouldCancel]
    /\ UNCHANGED hist
    /\ UNCHANGED licVars

\* the 'close' handler only logging, as the 'error' handler does
AiClose_NoHangup ==
    /\ openAiWs \in {"OPEN", "CLOSING", "FAILED"}
    /\ openAiWs' = "CLOSED"
    /\ aiOut' = <<>> /\ twOut' = <<>>
    /\ ev' = Ev("ai.close")
    /\ UNCHANGED <<progVars, connection, pendingCutoffs, initPending, coldOpenPending,
                   now, hist, twiml>>
    /\ UNCHANGED licVars

\* openAiWs.on('close'): connection.close()
AiClose ==
    /\ openAiWs \in {"OPEN", "CLOSING", "FAILED"}
    /\ openAiWs' = "CLOSED"
    /\ connection' = IF connection = "OPEN" THEN "CLOSING" ELSE connection
    /\ aiOut' = <<>> /\ twOut' = <<>>
    /\ ev' = Ev("ai.close")
    /\ UNCHANGED <<progVars, pendingCutoffs, initPending, coldOpenPending, now, hist, twiml>>
    /\ UNCHANGED licVars

\* ------------------------------------------------------ malformed events
\* an exception leaves a 'message' listener: nothing catches it (no
\* uncaughtException handler), the process exits and takes both sockets and all
\* timers with it; billUsage does not run
uncaughtException ==
    /\ connection' = "CLOSED"
    /\ openAiWs' = "CLOSED"
    /\ pendingCutoffs' = {}
    /\ initPending' = FALSE
    /\ coldOpenPending' = FALSE

\* malformed frames on the telephony leg: text that is not JSON, {"event":"start"}
\* without a start object, {"event":"media"} without a media object
TwMalformedKinds == {"non-json", "start-without-start", "media-without-media"}

\* connection.on('message'): JSON.parse in try/catch; data.start.streamSid and
\* data.media.timestamp are read outside any try
TwMalformed(kind) ==
    /\ connection \in {"OPEN", "CLOSING"}
    /\ IF kind = "non-json"
       THEN UNCHANGED <<openAiWs, connection, pendingCutoffs, initPending,
                        coldOpenPending>>
       ELSE uncaughtException
    /\ aiOut' = <<>> /\ twOut' = <<>>
    /\ ev' = [Ev("malformed") EXCEPT !.src = "telephony", !.name = kind]
    /\ UNCHANGED <<progVars, now, twiml, hist>>
    /\ UNCHANGED licVars

\* openAiWs.on('message') with data that is not JSON: logged, return
AiMalformed ==
    /\ AiDelivers
    /\ aiOut' = <<>> /\ twOut' = <<>>
    /\ ev' = [Ev("malformed") EXCEPT !.src = "ai", !.name = "non-json"]
    /\ UNCHANGED <<progVars, envVars, hist>>
    /\ UNCHANGED licVars

\* ------------------------------------------------------------- tool calls
ToolNames == {"mark_moment", "set_sizzle_mode", "foo"}
CallIds   == {1, 2}
\* args.mode of set_sizzle_mode / args.label of mark_moment ("" when missing)
ToolArgs  == {"on", "off", "loud", ""}
Shapes    == {"function_event", "item_event"}

\* a tool message to the AI leg
ToolMsg(t, id, r) == [type |-> t, call_id |-> id, output |-> r]

\* JSON.stringify(result)
JSONstringify(r) == [json |-> r]

validMode(arg) == arg = "on" \/ arg = "off"

\* the dispatcher without its final else: an unknown name keeps the default result
toolResult_NoUnknown(name, arg) ==
    IF name = "mark_moment" THEN [ok |-> TRUE, label |-> arg]
    ELSE IF name = "set_sizzle_mode"
         THEN IF validMode(arg) THEN [mode |-> arg]
              ELSE [error |-> <<"mode must be \"on\" or \"off\"">>]
    ELSE [ok |-> TRUE]

\* the result object of handleFunctionCall
toolResult(name, arg) ==
    IF name = "mark_moment" THEN [ok |-> TRUE, label |-> arg]
    ELSE IF name = "set_sizzle_mode"
         THEN IF validMode(arg) THEN [mode |-> arg]
              ELSE [error |-> <<"mode must be \"on\" or \"off\"">>]
    ELSE [ok |-> FALSE, error |-> <<"unknown_tool: ", name>>]

\* the session.update of a valid set_sizzle_mode
toolOverlay(name, arg) ==
    IF name = "set_sizzle_mode" /\ validMode(arg)
    THEN <<AiMsg("session.update", 0, 0)>> ELSE <<>>

\* the item shape answered without asking for the follow-up response
toolDelivery_NoFollowUp(shape, call_id, result) ==
    IF shape = "function_event"
    THEN <<ToolMsg("response.function.result", call_id, result)>>
    ELSE <<ToolMsg("conversation.item.create", call_id, JSONstringify(result))>>

\* "Return according to the shape we received"
toolDelivery(shape, call_id, result) ==
    IF shape = "function_event"
    THEN <<ToolMsg("response.function.result", call_id, result)>>
    ELSE <<ToolMsg("conversation.item.create", call_id, JSONstringify(result)),
           AiMsg("response.create", 0, 0)>>

\* handleFunctionCall({name, call_id, args, shape})
handleFunctionCall(name, call_id, arg, shape) ==
    /\ sizzleMode' = IF name = "set_sizzle_mode" /\ validMode(arg) THEN arg = "on"
                     ELSE sizzleMode
    /\ aiOut' = send(toolOverlay(name, arg)
                     \o toolDelivery(shape, call_id, toolResult(name, arg)))
    /\ twOut' = <<>>
    /\ ev' = [Ev("tool") EXCEPT !.src = shape, !.name = name, !.call = call_id,
                                !.active = hasActiveResponse,
                                !.open = (openAiWs = "OPEN")]
    /\ UNCHANGED <<caller, maxThisCall, isUnlimited, streamSid, latestMediaTimestamp, timestampIsNumber,
                   lastAssistantItem, markQueue, responseStartTimestampTwilio, callSid,
                   callStartedAt, cutoffTimer, billed, hasActiveResponse,
                   assistantStreaming, currentResponseId, dropAudioUntilNextResponse,
                   userSpeaking, lastLocalBargeTs, fastBargeCount, assistantBytesSent,
                   assistantOutAvgAbsEma, envVars, hist>>
    /\ UNCHANGED licVars

\* response.function.call (shape 1)
AiFunctionCall(name, call_id, arg) ==
    /\ AiDelivers
    /\ handleFunctionCall(name, call_id, arg, "function_event")

\* response.output_item.done with item.type = 'function_call' (shape 2)
AiFunctionCallItemDone(name, call_id, arg) ==
    /\ AiDelivers
    /\ handleFunctionCall(name, call_id, arg, "item_event")

\* ------------------------------------------------------ local barge-in detector
\* FAST_BARGE_ON && assistantStreaming && !userSpeaking && !dropAudioUntilNextResponse
detectorArmed == assistantStreaming /\ ~userSpeaking /\ ~dropAudioUntilNextResponse

\* sinceStart > guardMs, sinceStart being Infinity when either timestamp is falsy
guardElapsed(ts) ==
    IF responseStartTimestampTwilio # Null /\ ts # 0
    THEN ts - responseStartTimestampTwilio > FAST_BARGE_START_GUARD_MS
    ELSE TRUE

\* the test of the two windows without the cooldown
windowsElapsed_NoCooldown(ts) == guardElapsed(ts)

\* since > cooldown && sinceStart > guardMs
windowsElapsed(ts) ==
    /\ now - lastLocalBargeTs > FAST_BARGE_COOLDOWN_MS
    /\ guardElapsed(ts)

\* the energy test without the echo floor
passesEnergy_AbsOnly(inAvg) == inAvg > FAST_BARGE_ABS_THRESH

\* inAvg > Math.max(absThresh, assistantOutAvgAbsEma * ratio)
passesEnergy(inAvg) ==
    /\ inAvg > FAST_BARGE_ABS_THRESH
    /\ inAvg * RatioDen * assistantOutAvgAbsEma.den
          > assistantOutAvgAbsEma.num * RatioNum

\* the debounce test firing one frame late
debounced_Late(count) == count > FAST_BARGE_FRAMES

\* fastBargeCount >= FAST_BARGE_FRAMES, after the increment
debounced(count) == count >= FAST_BARGE_FRAMES

\* case 'media' with media.timestamp = latestMediaTimestamp + MediaStepMs, the
\* timestamp being a JSON number (isNumber) or a numeric JSON string
\* send({ type: 'input_audio_buffer.append', audio: data.media.payload })
inputAudioBufferAppend_Twice(frame) ==
    <<[type |-> "input_audio_buffer.append", a |-> 0, b |-> 0, audio |-> frame],
      [type |-> "input_audio_buffer.append", a |-> 0, b |-> 0, audio |-> frame]>>

inputAudioBufferAppend(frame) ==
    <<[type |-> "input_audio_buffer.append", a |-> 0, b |-> 0, audio |-> frame]>>

mediaEvent(frame, isNumber) ==
    /\ connection # "CLOSED"
    /\ latestMediaTimestamp < MaxMedia * MediaStepMs
    /\ LET ts == latestMediaTimestamp + MediaStepMs
           evaluated == detectorArmed /\ windowsElapsed(ts)
           inAvg == muLawAvgAbs(frame, Min(Len(frame), FAST_BARGE_WINDOW_BYTES))
           passes == evaluated /\ passesEnergy(inAvg)
           fire == passes /\ debounced(fastBargeCount + 1)
           append == inputAudioBufferAppend(frame)
           run == IF passes THEN Min(hist.runLen + 1, FAST_BARGE_FRAMES) ELSE 0
           obs == [amp |-> inAvg, emaNum |-> assistantOutAvgAbsEma.num,
                   emaDen |-> assistantOutAvgAbsEma.den, run |-> run]
       IN /\ latestMediaTimestamp' = ts /\ timestampIsNumber' = isNumber
          /\ IF fire
             THEN /\ lastLocalBargeTs' = now
                  /\ speechStartedState
                  /\ aiOut' = send(speechStartedMsgs \o append)
                  /\ twOut' = speechStartedTwilio
                  /\ ev' = [SpeechEv("local") EXCEPT
                               !.fired = TRUE, !.prevFire = lastLocalBargeTs,
                               !.payload = frame,
                               !.amp = obs.amp, !.emaNum = obs.emaNum,
                               !.emaDen = obs.emaDen, !.run = obs.run]
                  /\ hist' = SpeechHist("local")
             ELSE /\ fastBargeCount' = IF passes THEN fastBargeCount + 1
                                       ELSE IF evaluated THEN 0 ELSE fastBargeCount
                  /\ aiOut' = send(append)
                  /\ twOut' = <<>>
                  /\ ev' = [Ev("media") EXCEPT !.payload = frame]
                  /\ hist' = [hist EXCEPT !.runLen = run]
                  /\ UNCHANGED <<lastLocalBargeTs, dropAudioUntilNextResponse,
                                 userSpeaking, markQueue, lastAssistantItem,
                                 responseStartTimestampTwilio, assistantStreaming,
                                 hasActiveResponse>>
    /\ UNCHANGED <<sizzleMode, caller, maxThisCall, isUnlimited, streamSid, callSid, callStartedAt,
                   cutoffTimer, billed, currentResponseId, assistantBytesSent,
                   assistantOutAvgAbsEma, envVars>>
    /\ UNCHANGED licVars

\* a media event whose timestamp is a number
TwMedia(frame) == mediaEvent(frame, TRUE)

\* a media event whose timestamp is a string of digits ("timestamp": "450");
\* subtraction coerces it, Number.isFinite does not
TwMediaString(frame) == mediaEvent(frame, FALSE)

\* ------------------------------------------------------------ specification
Next ==
    \/ \E cp \in StartParams, sid \in {Null, 1} : TwStart(cp, sid)
    \/ \E frame \in InFrames : TwMedia(frame)
    \/ \E frame \in InFrames : TwMediaString(frame)
    \/ TwMark
    \/ TwStop
    \/ TwClose
    \/ \E t \in pendingCutoffs : CutoffFire(t)
    \/ Tick
    \/ AiOpen
    \/ InitializeSession
    \/ SendColdOpen
    \/ AiResponseCreated
    \/ \E rid \in 1..MaxResponses, frame \in OutFrames : AiAudioDelta(rid, frame)
    \/ AiResponseDone
    \/ \E item \in 1..MaxResponses : AiOutputItemAdded(item)
    \/ AiSpeechStarted
    \/ AiSpeechStopped
    \/ AiSocketError
    \/ AiClose
    \/ \E name \in ToolNames, id \in CallIds, arg \in ToolArgs :
          AiFunctionCall(name, id, arg)
    \/ \E name \in ToolNames, id \in CallIds, arg \in ToolArgs :
          AiFunctionCallItemDone(name, id, arg)
    \/ \E kind \in TwMalformedKinds : TwMalformed(kind)
    \/ AiMalformed
    \/ \E code \in ErrorCodes : AiErrorEvent(code)
    \/ \E p \in Procs, secs \in UsageSeconds : Invoke(p, "deductSeconds", secs)
    \/ \E p \in Procs : Invoke(p, "ensureInitialTrialTopup", TRIAL_INIT_SECONDS)
    \/ \E p \in Procs, secs \in PaidSeconds : Invoke(p, "addPaidSeconds", secs)
    \/ \E p \in Procs : getOrCreateContactForUser(p)
    \/ \E p \in Procs, ok \in BOOLEAN : deductSeconds(p, ok)
    \/ \E p \in Procs, ok \in BOOLEAN : deductLog(p, ok)
    \/ \E p \in Procs, ok \in BOOLEAN : addPaidSeconds(p, ok)
    \/ \E p \in Procs, ok \in BOOLEAN : addPaidLog(p, ok)
    \/ \E p \in Procs : trialCheck(p)
    \/ \E p \in Procs, ok \in BOOLEAN : trialUpdate(p, ok)
    \/ \E p \in Procs, ok \in BOOLEAN : trialLog(p, ok)

Spec == Init /\ [][Next]_vars

\* The turn-taking machine of one started call: both sockets stay up.
InitTurn == Init /\ caller = User /\ maxThisCall = PerCallMax /\ ~isUnlimited

NextTurn ==
    \/ hist.nStarts = 0 /\ TwStart([caller |-> User, max |-> PerCallMax, unlimited |-> FALSE], 1)
    \/ latestMediaTimestamp < ShortMedia * MediaStepMs /\ \E frame \in InFrames : TwMedia(frame)
    \/ TwMark
    \/ AiOpen
    \/ AiResponseCreated
    \/ \E rid \in 1..MaxResponses, frame \in OutFrames : AiAudioDelta(rid, frame)
    \/ AiResponseDone
    \/ \E item \in 1..MaxResponses : AiOutputItemAdded(item)
    \/ AiSpeechStarted
    \/ AiSpeechStopped
    \/ AiSocketError

SpecTurn == InitTurn /\ [][NextTurn]_vars

\* The local detector against the wall clock: cooldown and start guard.
NextDetector ==
    \/ hist.nStarts = 0 /\ TwStart([caller |-> User, max |-> PerCallMax, unlimited |-> FALSE], 1)
    \/ latestMediaTimestamp < ShortMedia * MediaStepMs /\ \E frame \in InFrames : TwMedia(frame)
    \/ Tick
    \/ AiOpen
    \/ AiResponseCreated
    \/ \E rid \in 1..MaxResponses, frame \in OutFrames : AiAudioDelta(rid, frame)
    \/ AiResponseDone
    \/ AiSpeechStarted
    \/ AiSpeechStopped

SpecDetector == InitTurn /\ [][NextDetector]_vars

\* The life cycle of one connection: start, stop, close, timers, billing.
NextSession ==
    \/ \E cp \in StartParams, sid \in {Null, 1} : TwStart(cp, sid)
    \/ TwStop
    \/ TwClose
    \/ \E t \in pendingCutoffs : CutoffFire(t)
    \/ Tick
    \/ AiOpen
    \/ InitializeSession
    \/ SendColdOpen
    \/ AiSocketError
    \/ AiClose

SpecSession == Init /\ [][NextSession]_vars

\* Responses and tool calls on the AI leg of a started call.  The service runs
\* one response at a time: response.created only follows the previous response.done.
NextTools ==
    \/ hist.nStarts = 0 /\ TwStart([caller |-> User, max |-> PerCallMax, unlimited |-> FALSE], 1)
    \/ AiOpen
    \/ InitializeSession
    \/ SendColdOpen
    \/ ~hist.respOpen /\ AiResponseCreated
    \/ AiResponseDone
    \/ AiSpeechStarted
    \/ AiSocketError
    \/ \E name \in ToolNames, id \in CallIds, arg \in ToolArgs :
          AiFunctionCall(name, id, arg)
    \/ \E name \in ToolNames, id \in CallIds, arg \in ToolArgs :
          AiFunctionCallItemDone(name, id, arg)

SpecTools == InitTurn /\ [][NextTools]_vars

\* A call as the telephony service delivers it: the 'start' event of the stream
\* precedes its media frames, and the AI service runs one response at a time.
NextStream ==
    \/ hist.nStarts = 0 /\ TwStart([caller |-> User, max |-> PerCallMax, unlimited |-> FALSE], 1)
    \/ hist.nStarts > 0 /\ \E frame \in InFrames : TwMedia(frame)
    \/ AiOpen
    \/ ~hist.respOpen /\ AiResponseCreated
    \/ \E rid \in 1..MaxResponses, frame \in OutFrames : AiAudioDelta(rid, frame)
    \/ AiResponseDone
    \/ AiSpeechStarted
    \/ AiSpeechStopped
    \/ Tick

SpecStream == InitTurn /\ [][NextStream]_vars

\* A call on which the AI service reports errors, among them the answer to a
\* response.cancel that found no active response.
NextErrors ==
    \/ hist.nStarts = 0 /\ TwStart([caller |-> User, max |-> PerCallMax, unlimited |-> FALSE], 1)
    \/ AiOpen
    \/ InitializeSession
    \/ SendColdOpen
    \/ ~hist.respOpen /\ AiResponseCreated
    \/ \E rid \in 1..MaxResponses : AiAudioDelta(rid, Mixed4)
    \/ AiResponseDone
    \/ AiSpeechStarted
    \/ AiSpeechStopped
    \/ \E code \in ErrorCodes : AiErrorEvent(code)
    \/ TwStop

SpecErrors == InitTurn /\ [][NextErrors]_vars

\* The caller hangs up while the assistant is talking: the telephony socket closes,
\* the AI socket is closed in turn and delivers what it had received until then.
NextHangup ==
    \/ hist.nStarts = 0 /\ TwStart([caller |-> User, max |-> PerCallMax, unlimited |-> FALSE], 1)
    \/ TwMark
    \/ TwClose
    \/ AiOpen
    \/ ~hist.respOpen /\ AiResponseCreated
    \/ \E rid \in 1..MaxResponses : AiAudioDelta(rid, Mixed4)
    \/ AiResponseDone
    \/ AiSpeechStarted
    \/ AiClose

SpecHangup == InitTurn /\ [][NextHangup]_vars

\* The detector's measurement alone: buf = Buffer.from(payload, 'base64'),
\* len = min(buf.length, win), inAvg = muLawAvgAbs(buf, len), for frames of one byte
Bytes == 0..255

measureFrame(buf) ==
    /\ ev' = [Ev("measure") EXCEPT
                 !.payload = buf,
                 !.amp = muLawAvgAbs(buf, Min(Len(buf), FAST_BARGE_WINDOW_BYTES))]
    /\ UNCHANGED <<progVars, envVars, licVars, aiOut, twOut, hist>>

NextMeasure == \E b \in Bytes : measureFrame(<<b>>)

SpecMeasure == InitTurn /\ [][NextMeasure]_vars

\* The end of a call in progress: 'start' was handled at T0 for a caller with a
\* budget, the clock and the last media timestamp have any of the listed values,
\* the timestamp having arrived as a number or as a string of digits.
ElapsedMs == {0, 1, 1000, 1001, 2500}
LastTimestamps == {0, 600, 1001, 3000}

InitDuration ==
    /\ caller = User /\ maxThisCall = PerCallMax /\ isUnlimited = FALSE
    /\ streamSid = 1 /\ callSid = 1
    /\ latestMediaTimestamp \in LastTimestamps /\ timestampIsNumber \in BOOLEAN
    /\ lastAssistantItem = Null /\ markQueue = <<>>
    /\ responseStartTimestampTwilio = Null
    /\ callStartedAt = T0 /\ now \in {T0 + e : e \in ElapsedMs}
    /\ cutoffTimer = 1 /\ pendingCutoffs = {1}
    /\ billed = FALSE
    /\ hasActiveResponse = FALSE /\ assistantStreaming = FALSE
    /\ currentResponseId = Null /\ dropAudioUntilNextResponse = FALSE
    /\ userSpeaking = FALSE /\ lastLocalBargeTs = 0 /\ fastBargeCount = 0
    /\ assistantBytesSent = 0 /\ assistantOutAvgAbsEma = [num |-> 0, den |-> 1]
    /\ sizzleMode = FALSE
    /\ openAiWs = "CONNECTING" /\ connection = "OPEN"
    /\ initPending = FALSE /\ coldOpenPending = FALSE
    /\ twiml = [kind |-> "stream", caller |-> User, max |-> PerCallMax,
                unlimited |-> FALSE]
    /\ aiOut = <<>> /\ twOut = <<>>
    /\ ev = Ev("start")
    /\ hist = [deductCalls |-> 0, deductOk |-> FALSE, cancelled |-> {},
               ended |-> FALSE, final |-> FALSE, survivors |-> {}, respOpen |-> FALSE,
               reportedBy |-> {}, runLen |-> 0, fwdSinceCreated |-> 0,
               audioStart |-> NoAudio, respCount |-> 0, nDeltas |-> 0,
               nStarts |-> 1, nTicks |-> 0, asked |-> TRUE, left |-> PerCallMax]
    /\ Contact = [rbt |-> 5, is_unlimited |-> FALSE] /\ noCalls

NextDuration ==
    \/ TwMedia(InQuiet)
    \/ TwMediaString(InQuiet)
    \/ TwStop
    \/ TwClose
    \/ \E t \in pendingCutoffs : CutoffFire(t)

SpecDuration == InitDuration /\ [][NextDuration]_vars

\* The accounting collaborator alone: two calls of deductSeconds or
\* ensureInitialTrialTopup for one user, each an async function whose awaits let
\* the other call run in between.
InitLicense ==
    /\ InitConnection /\ caller = User /\ maxThisCall = PerCallMax /\ ~isUnlimited
    /\ Contact \in ContactRows /\ noCalls

NextLicense ==
    \/ \E p \in Procs, secs \in UsageSeconds : Invoke(p, "deductSeconds", secs)
    \/ \E p \in Procs : Invoke(p, "ensureInitialTrialTopup", TRIAL_INIT_SECONDS)
    \/ \E p \in Procs, secs \in PaidSeconds : Invoke(p, "addPaidSeconds", secs)
    \/ \E p \in Procs : getOrCreateContactForUser(p)
    \/ \E p \in Procs, ok \in BOOLEAN : deductSeconds(p, ok)
    \/ \E p \in Procs, ok \in BOOLEAN : deductLog(p, ok)
    \/ \E p \in Procs, ok \in BOOLEAN : addPaidSeconds(p, ok)
    \/ \E p \in Procs, ok \in BOOLEAN : addPaidLog(p, ok)
    \/ \E p \in Procs : trialCheck(p)
    \/ \E p \in Procs, ok \in BOOLEAN : trialUpdate(p, ok)
    \/ \E p \in Procs, ok \in BOOLEAN : trialLog(p, ok)

SpecLicense == InitLicense /\ [][NextLicense]_vars

\* A call in which malformed frames arrive on either leg.
NextMalformed ==
    \/ hist.nStarts = 0
          /\ TwStart([caller |-> User, max |-> PerCallMax, unlimited |-> FALSE], 1)
    \/ latestMediaTimestamp < ShortMedia * MediaStepMs /\ TwMedia(InLoud)
    \/ TwStop
    \/ AiOpen
    \/ InitializeSession
    \/ SendColdOpen
    \/ ~hist.respOpen /\ AiResponseCreated
    \/ \E rid \in 1..MaxResponses : AiAudioDelta(rid, Mixed4)
    \/ AiResponseDone
    \/ \E kind \in TwMalformedKinds : TwMalformed(kind)
    \/ AiMalformed

SpecMalformed == InitTurn /\ [][NextMalformed]_vars

\* One call that may lose its AI leg.  ws emits 'close' after 'error' and after
\* close(), and connection.close() ends in the telephony 'close' event (closing
\* handshake, or the close timeout that destroys the socket): both are fair.
NextAiLoss ==
    \/ hist.nStarts = 0
          /\ TwStart([caller |-> User, max |-> PerCallMax, unlimited |-> FALSE], 1)
    \/ latestMediaTimestamp < ShortMedia * MediaStepMs /\ TwMedia(InLoud)
    \/ TwStop
    \/ TwClose
    \/ \E t \in pendingCutoffs : CutoffFire(t)
    \/ AiOpen
    \/ InitializeSession
    \/ SendColdOpen
    \/ ~hist.respOpen /\ AiResponseCreated
    \/ AiResponseDone
    \/ AiSocketError
    \/ AiClose

SpecAiLoss ==
    /\ InitTurn /\ [][NextAiLoss]_vars
    /\ WF_vars(AiClose)
    /\ WF_vars(connection = "CLOSING" /\ TwClose)

\* From the webhook to the end of the connection it may lead to.
NextAdmission ==
    \/ \E from \in {Null, User}, secondsLeft \in SecondsLeft, unlimited \in BOOLEAN :
          IncomingCall(from, secondsLeft, unlimited)
    \/ StreamConnect
    \/ connection # "NONE" /\ hist.nStarts = 0
          /\ TwStart([caller |-> twiml.caller, max |-> twiml.max,
                      unlimited |-> twiml.unlimited], 1)
    \/ connection # "NONE" /\ TwStop
    \/ connection # "NONE" /\ TwClose
    \/ \E t \in pendingCutoffs : CutoffFire(t)
    \/ AiOpen
    \/ InitializeSession
    \/ SendColdOpen
    \/ AiResponseCreated
    \/ AiSpeechStarted
    \/ AiClose

SpecAdmission == InitAdmission /\ [][NextAdmission]_vars

\* ================================================================= claims

\* C1: whatever stop and close events a connection sees, and in whatever order,
\* deductSeconds is invoked at most once for it.
C1_AtMostOneDeduct == hist.deductCalls <= 1

\* a termination signal processed after an earlier one had already billed
C1_Witness ==
    /\ ev.kind \in {"stop", "close"}
    /\ ev.ended
    /\ ~ev.fired
    /\ billed
    /\ hist.deductCalls = 1

\* C3: billed is true only once a deductSeconds call has succeeded (a failed
\* deduct leaves it false, so that the next stop or close retries).
C3_BilledOnlyAfterSuccess == (billed /\ ~isUnlimited) => hist.deductOk

\* C4: the cutoff callback never runs once a stop or a close has been processed
\* after the 'start' that scheduled it.
C4_NoCutoffAfterEnd == ~(ev.kind = "cutoff" /\ ev.ended)

\* the types of the messages the last handler sent to the AI leg
AiOutTypes == {aiOut[i].type : i \in 1..Len(aiOut)}

\* C2: an audio delta of a response for which a response.cancel was issued is
\* never forwarded to the telephony leg afterwards.
C2_NoForwardAfterCancel == ~(ev.kind = "delta" /\ ev.late /\ ev.fwd)

\* C5: a speech-detected event (server or local) that finds a response active, on
\* an open AI leg, sends response.cancel first: scoped to the recorded response id,
\* unscoped (no response_id) when none is recorded.
C5_CancelOnSpeech ==
    (ev.kind = "speech" /\ ev.active /\ ev.open)
        => /\ Len(aiOut) >= 1
           /\ aiOut[1] = [type |-> "response.cancel", a |-> ev.id, b |-> 0]
           /\ \A i \in 2..Len(aiOut) : aiOut[i].type # "response.cancel"

\* an active response whose id is not recorded is cancelled without an id
C5_Witness ==
    /\ ev.kind = "speech" /\ ev.active /\ ev.open
    /\ ev.id = Null
    /\ aiOut # <<>> /\ aiOut[1].type = "response.cancel"

\* C6: a barge-in during a response (assistant streaming, response created and not
\* done, open AI leg) with B > 0 bytes forwarded since response.created sends
\* conversation.item.truncate for the last assistant item with
\* audio_end_ms = floor(B / 8).
C6_TruncateAtForwardedBytes ==
    (ev.kind = "speech" /\ ev.streaming /\ ev.respOpen /\ ev.open /\ ev.fwdBytes > 0)
        => /\ ev.item # Null
           /\ \E i \in 1..Len(aiOut) :
                 aiOut[i] = [type |-> "conversation.item.truncate",
                             a |-> ev.item, b |-> ev.fwdBytes \div 8]
           /\ Cardinality({i \in 1..Len(aiOut) :
                 aiOut[i].type = "conversation.item.truncate"}) = 1

\* a barge-in after 12 forwarded bytes, truncated at 1 ms
C6_Witness ==
    /\ ev.kind = "speech" /\ ev.streaming /\ ev.respOpen /\ ev.open
    /\ ev.fwdBytes = 12
    /\ \E i \in 1..Len(aiOut) : aiOut[i].type = "conversation.item.truncate"
                                /\ aiOut[i].b = 1

\* C7: a barge-in (speech detected while assistant audio of the current response
\* is being played to a started stream) sends `clear` to the telephony leg.
C7_ClearOnBargeIn ==
    (ev.kind = "speech" /\ ev.streaming /\ ev.sid # Null)
        => \E i \in 1..Len(twOut) : twOut[i].event = "clear"

\* C8: when both detectors report speech for one response, the second report sends
\* neither response.cancel nor conversation.item.truncate.
C8_SecondReportIsNoOp ==
    (ev.kind = "speech" /\ ev.second)
        => AiOutTypes \cap {"response.cancel", "conversation.item.truncate"} = {}

\* C9: the local detector fires only on a frame whose average amplitude is
\* strictly above max(FAST_BARGE_ABS_THRESH, echo-floor EMA * 1.2), the EMA being
\* the one in force when the frame is evaluated.
C9_FireOnlyAboveFloor ==
    ev.fired => /\ ev.amp > FAST_BARGE_ABS_THRESH
                /\ ev.amp * RatioDen * ev.emaDen > ev.emaNum * RatioNum

\* a firing decided by the echo floor, which is above the static threshold
C9_Witness ==
    /\ ev.fired
    /\ ev.emaNum * RatioNum > FAST_BARGE_ABS_THRESH * RatioDen * ev.emaDen
    /\ ev.amp * RatioDen * ev.emaDen > ev.emaNum * RatioNum

\* C10: the local detector fires only on the frame that completes a run of
\* FAST_BARGE_FRAMES consecutive inbound frames, each of them evaluated by the
\* detector and qualifying (ev.run counts such frames back from the current one;
\* a frame that is not evaluated or does not qualify ends the run).
C10_FireNeedsConsecutiveRun == ev.fired => ev.run >= FAST_BARGE_FRAMES

\* C11: with the detector armed and both windows elapsed, the inbound frame that
\* completes FAST_BARGE_FRAMES consecutive evaluated, qualifying frames fires while
\* it is processed: no handled frame leaves such a run standing (hist.runLen, the
\* length of that run, is back to 0 when the frame fires), and the firing frame
\* has made the speech-detected transition.
C11_FireOnNthFrame ==
    /\ hist.runLen < FAST_BARGE_FRAMES
    /\ (ev.fired /\ ev.run >= FAST_BARGE_FRAMES)
          => /\ userSpeaking /\ dropAudioUntilNextResponse
             /\ ~assistantStreaming /\ ~hasActiveResponse
             /\ markQueue = <<>> /\ fastBargeCount = 0

\* a firing on the second of two consecutive qualifying frames
C11_Witness ==
    /\ ev.fired /\ ev.run = FAST_BARGE_FRAMES
    /\ userSpeaking /\ ~assistantStreaming

\* the turn state of the connection
turnState == <<hasActiveResponse, assistantStreaming, currentResponseId,
               dropAudioUntilNextResponse, userSpeaking, markQueue, lastAssistantItem,
               responseStartTimestampTwilio, assistantBytesSent, fastBargeCount>>

\* C12: a stop or close processed after the session was finalized (an earlier stop
\* or close, no 'start' since) changes neither billed, nor the cutoff timer handle,
\* nor the state of the AI leg, nor the turn state, and sends nothing on either leg.
C12_EndIsIdempotent ==
    [][(hist.final /\ ev'.kind \in {"stop", "close"})
          => /\ billed' = billed
             /\ cutoffTimer' = cutoffTimer
             /\ openAiWs' = openAiWs
             /\ turnState' = turnState
             /\ aiOut' = <<>> /\ twOut' = <<>>]_vars

\* C13: the bridge never sends response.create (cold open, follow-up of an
\* item-shaped tool result) while it records a response as active, and no
\* response.created arrives while another response is recorded as active.
C13_OneActiveResponse ==
    /\ (ev.kind \in {"sendColdOpen", "tool"} /\ ev.active)
          => "response.create" \notin AiOutTypes
    /\ ~(ev.kind = "response.created" /\ ev.active /\ ev.id # Null)

\* C14 as stated: assistantBytesSent goes back to 0 only at response.created; no
\* other event lowers it.
C14_ResetOnlyAtCreated ==
    [][assistantBytesSent' < assistantBytesSent
          => (ev'.kind = "response.created" /\ assistantBytesSent' = 0)]_vars

\* C14 amended: assistantBytesSent goes back to 0 only at response.created and at
\* response.done; every other event leaves it or (a forwarded delta) raises it.
C14_ResetOnlyAtCreatedOrDone ==
    [][assistantBytesSent' < assistantBytesSent
          => (ev'.kind \in {"response.created", "response.done"}
              /\ assistantBytesSent' = 0)]_vars

\* a response.done that found forwarded bytes and reset the counter
C14_Witness ==
    /\ ev.kind = "response.done" /\ ev.bytes > 0
    /\ assistantBytesSent = 0

\* C15: the state right after a speech-detected event (server or local, whether or
\* not a cancel could be sent, and before any other event is handled) has an empty
\* mark queue, no last assistant item, no response-start timestamp, is neither
\* streaming nor active, and has the suppression flags set.
C15_BargeInResetsAtOnce ==
    ev.kind = "speech"
        => /\ markQueue = <<>>
           /\ lastAssistantItem = Null
           /\ responseStartTimestampTwilio = Null
           /\ ~assistantStreaming /\ ~hasActiveResponse
           /\ dropAudioUntilNextResponse /\ userSpeaking

\* a barge-in on a streaming response of a started stream: the cancel has just
\* been sent, no answer to it has been handled, and the state is already reset
C15_Witness ==
    /\ ev.kind = "speech" /\ ev.streaming /\ ev.sid # Null /\ ev.item # Null
    /\ "response.cancel" \in AiOutTypes
    /\ markQueue = <<>> /\ lastAssistantItem = Null /\ ~hasActiveResponse

\* C16: once the webhook has been told that the caller has 0 seconds (or fewer)
\* left, its reply is the spoken notice followed by hang-up, and for that call no
\* media-stream session exists, no AI leg is opened and no telephony or AI event
\* is ever handled.
C16_NoSessionWithoutSeconds ==
    (hist.asked /\ hist.left <= 0)
        => /\ twiml.kind = "say_hangup"
           /\ connection = "NONE" /\ openAiWs = "NONE"
           /\ ev.kind = "incoming-call"
           /\ hist.nStarts = 0 /\ hist.respCount = 0 /\ ~hasActiveResponse

\* a call from a known caller with nothing left, answered with the notice
C16_Witness ==
    /\ hist.asked /\ hist.left = 0
    /\ twiml.kind = "say_hangup"
    /\ ev.kind = "incoming-call"

\* {ok:false, error:"unknown_tool: foo"}
UnknownToolResult == [ok |-> FALSE, error |-> <<"unknown_tool: ", "foo">>]

\* C17: a tool call named "foo", handled with the AI leg open, sends the result
\* {ok:false, error:"unknown_tool: foo"} for its call id to the AI leg (as the
\* function result, or JSON-encoded in the conversation item, by shape), and it
\* leaves both legs, the turn state, billing and the delivery-style toggle as
\* they were, sending nothing to the telephony leg.
C17_UnknownTool ==
    [][(ev'.kind = "tool" /\ ev'.name = "foo" /\ ev'.open)
          => /\ Len(aiOut') >= 1
             /\ aiOut'[1].call_id = ev'.call
             /\ aiOut'[1].output = IF ev'.src = "function_event" THEN UnknownToolResult
                                   ELSE JSONstringify(UnknownToolResult)
             /\ twOut' = <<>>
             /\ UNCHANGED <<turnState, sizzleMode, openAiWs, connection, billed,
                            cutoffTimer, streamSid>>]_vars

\* an unknown tool called through a conversation item, answered on an open leg
C17_Witness ==
    /\ ev.kind = "tool" /\ ev.name = "foo" /\ ev.open /\ ev.src = "item_event"
    /\ aiOut[1].output = JSONstringify(UnknownToolResult)
    /\ openAiWs = "OPEN" /\ connection = "OPEN"

\* the messages msgs deliver a tool result in the shape the call arrived in
DeliveredInShape(msgs) ==
    IF ev.src = "function_event"
    THEN /\ Len(msgs) = 1
         /\ msgs[1].type = "response.function.result"
         /\ msgs[1].call_id = ev.call
         /\ "json" \notin DOMAIN msgs[1].output
    ELSE /\ Len(msgs) = 2
         /\ msgs[1].type = "conversation.item.create"
         /\ msgs[1].call_id = ev.call
         /\ DOMAIN msgs[1].output = {"json"}
         /\ msgs[2].type = "response.create"

\* C18 as stated: every tool call handled on an open AI leg sends exactly the
\* messages of its shape (one function result for its call id; or one
\* conversation.item.create with the JSON-encoded output, then one
\* response.create) and nothing else.
C18_DeliveryOnly == (ev.kind = "tool" /\ ev.open) => DeliveredInShape(aiOut)

\* C18 amended: the messages of its shape, in that order, preceded by nothing
\* except the one session.update a set_sizzle_mode call may send.
C18_DeliveryInShape ==
    (ev.kind = "tool" /\ ev.open)
        => \/ DeliveredInShape(aiOut)
           \/ /\ ev.name = "set_sizzle_mode"
              /\ Len(aiOut) >= 1 /\ aiOut[1].type = "session.update"
              /\ DeliveredInShape(Tail(aiOut))

\* an item-shaped set_sizzle_mode call: overlay, item, then the follow-up request
C18_Witness ==
    /\ ev.kind = "tool" /\ ev.open /\ ev.src = "item_event"
    /\ ev.name = "set_sizzle_mode"
    /\ Len(aiOut) = 3 /\ aiOut[3].type = "response.create"
    /\ sizzleMode

\* C19: a malformed inbound event on either leg (not JSON, or a start without its
\* start object, or a media without its media object) changes no session state,
\* sends nothing on either leg and leaves both legs and the timers as they were.
C19_MalformedDiscarded ==
    [][ev'.kind = "malformed"
          => /\ UNCHANGED <<progVars, openAiWs, connection, pendingCutoffs,
                            initPending, coldOpenPending>>
             /\ aiOut' = <<>> /\ twOut' = <<>>]_vars

\* the session has ended: telephony leg closed, no cutoff pending, and the usage
\* report made (billed) if the call had started
Terminated ==
    /\ connection = "CLOSED"
    /\ cutoffTimer = Null /\ pendingCutoffs = {}
    /\ (callStartedAt # Null /\ caller # Null) => billed

\* C20: once the AI leg has failed or closed, the session eventually terminates:
\* the telephony leg is closed, the cutoff timer cancelled and billUsage has run.
C20_AiLossEndsSession == (openAiWs \in {"FAILED", "CLOSED"}) ~> Terminated

\* the telephony close that follows the loss of the AI leg, making the only
\* usage report of the call
C20_Witness ==
    /\ ev.kind = "close" /\ ~ev.ended /\ ev.fired
    /\ openAiWs = "CLOSED"
    /\ Terminated /\ billed /\ hist.deductCalls = 1

\* C21: once a stop or close has ended the session (no 'start' since), none of
\* its deferred callbacks runs any more: neither a cutoff timer, nor the delayed
\* initializeSession, nor the delayed sendColdOpen.
C21_NoCallbackAfterEnd ==
    [][hist.final
          => ev'.kind \notin {"cutoff", "initializeSession", "sendColdOpen"}]_vars

\* the media frames among the messages of one step to the telephony leg
mediaSent(msgs) == SelectSeq(msgs, LAMBDA m : m.event = "media")

\* C22: assistant audio is relayed in order, without duplicates: a media frame
\* goes to the telephony leg only while an audio-delta is handled, at most one
\* per delta, and it carries the payload of that delta. The frames sent therefore
\* form a subsequence of the deltas received, in arrival order.
C22_RelayInOrder ==
    [][IF ev'.kind = "delta"
       THEN \/ mediaSent(twOut') = <<>>
            \/ /\ Len(mediaSent(twOut')) = 1
               /\ ev'.fwd
               /\ mediaSent(twOut')[1].payload = ev'.payload
               /\ mediaSent(twOut')[1].rid = ev'.rid
       ELSE mediaSent(twOut') = <<>>]_vars

\* two deltas forwarded one after the other
C22_Witness ==
    /\ ev.kind = "delta" /\ ev.fwd
    /\ hist.nDeltas = 2
    /\ mediaSent(twOut) # <<>>

\* C23: concurrent deductSeconds calls for one user lose no update: when both
\* calls have finished, the stored balance is the initial balance less every
\* deduction that was written, floored at 0.
C23_NoLostUpdate ==
    (\A p \in Procs : calls[p].fn = "deductSeconds" /\ calls[p].pc = "done")
        => Contact.rbt = Max(0, ledger.start - ledger.deducted)

\* C26: whatever the number and interleaving of ensureInitialTrialTopup calls
\* for one user, and whether or not the activity-log write succeeds, the balance
\* is raised by the trial amount at most once: with no other accounting call made,
\* it never exceeds the initial balance plus one trial amount.
C26_TrialAtMostOnce ==
    (\A p \in Procs : calls[p].fn \in {"none", "ensureInitialTrialTopup"})
        => Contact.rbt <= ledger.start + tokensOf(TRIAL_INIT_SECONDS)

\* C24: the local detector never fires inside the startup guard window of the
\* response that is playing, whichever response of the call it is: when it
\* fires, more than FAST_BARGE_START_GUARD_MS of telephony time have passed since
\* the first audio of the response it interrupts was forwarded (ev.audioStart).
C24_GuardEveryResponse ==
    (ev.kind = "speech" /\ ev.fired /\ ev.audioStart # NoAudio)
        => latestMediaTimestamp - ev.audioStart > FAST_BARGE_START_GUARD_MS

\* C25: two local triggers of one session are more than the cooldown apart:
\* when the detector fires and has fired before (ev.prevFire is the clock time
\* of its previous firing, 0 when there is none), more than
\* FAST_BARGE_COOLDOWN_MS have passed since.
C25_CooldownBetweenTriggers ==
    (ev.kind = "speech" /\ ev.fired /\ ev.prevFire # 0)
        => now - ev.prevFire > FAST_BARGE_COOLDOWN_MS

\* the detector fires for the second time in a call
C25_Witness ==
    /\ ev.kind = "speech" /\ ev.fired
    /\ ev.prevFire # 0
    /\ lastLocalBargeTs = now

\* C27: an audio-delta of the current response that arrives after its
\* response.created and before any speech-detected event of either detector
\* since then (hist.reportedBy is empty) is forwarded to the telephony leg.
C27_ForwardUntilSpeech ==
    [][(/\ ev'.kind = "delta"
        /\ hist.respOpen
        /\ ev'.rid = currentResponseId
        /\ hist.reportedBy = {})
          => ev'.fwd]_vars

\* the mark commands among the messages of one step to the telephony leg
marksSent(msgs) == SelectSeq(msgs, LAMBDA m : m.event = "mark")

\* C28: whenever an audio-delta is forwarded, the same step sends exactly one
\* mark command to the telephony leg, after the frame, and appends exactly one
\* token to the mark queue, also when no 'start' event has set the stream id yet.
C28_OneMarkPerDelta ==
    [][(ev'.kind = "delta" /\ ev'.fwd)
          => /\ Len(marksSent(twOut')) = 1
             /\ twOut'[Len(twOut')].event = "mark"
             /\ markQueue' = Append(markQueue, "responsePart")]_vars

\* the state of the turn machine as the connection's flags encode it: the
\* suppression flag with a recorded response id stands for CALLER_BARGE, the
\* active flag for ASSISTANT_SPEAKING (ASSISTANT_DONE is entered and left within
\* the response.done handler)
turnPhase ==
    IF dropAudioUntilNextResponse /\ currentResponseId # Null THEN "CALLER_BARGE"
    ELSE IF hasActiveResponse THEN "ASSISTANT_SPEAKING"
    ELSE "IDLE"

\* C29: the turn state changes only along IDLE -> ASSISTANT_SPEAKING at
\* response.created, ASSISTANT_SPEAKING -> CALLER_BARGE at a speech-detected
\* event, and ASSISTANT_SPEAKING or CALLER_BARGE -> IDLE at response.done; in
\* particular no response becomes active straight from CALLER_BARGE.
C29_TurnEdges ==
    [][turnPhase' # turnPhase
          => \/ /\ turnPhase = "IDLE" /\ turnPhase' = "ASSISTANT_SPEAKING"
                /\ ev'.kind = "response.created"
             \/ /\ turnPhase = "ASSISTANT_SPEAKING" /\ turnPhase' = "CALLER_BARGE"
                /\ ev'.kind = "speech"
             \/ /\ turnPhase \in {"ASSISTANT_SPEAKING", "CALLER_BARGE"}
                /\ turnPhase' = "IDLE"
                /\ ev'.kind = "response.done"]_vars

\* C30: a speech-detected event handled while no response is active (no active
\* flag, no streaming, no recorded response id) sends no cancel and no truncate
\* to the AI leg and nothing to the telephony leg, and leaves the mark queue, the
\* byte counter and the last-assistant-item record as they were.
C30_IdleSpeechOnlyFlags ==
    [][(/\ ev'.kind = "speech"
        /\ ~hasActiveResponse /\ ~assistantStreaming /\ currentResponseId = Null)
          => /\ \A i \in 1..Len(aiOut') :
                    aiOut'[i].type \notin {"response.cancel", "conversation.item.truncate"}
             /\ twOut' = <<>>
             /\ markQueue' = markQueue
             /\ assistantBytesSent' = assistantBytesSent
             /\ lastAssistantItem' = lastAssistantItem]_vars

\* C31: an error event with code response_cancel_not_active changes no session
\* or turn state, sends nothing on either leg and ends neither the AI leg nor
\* the call.
C31_CancelNotActiveIsNoOp ==
    [][(ev'.kind = "error" /\ ev'.code = "response_cancel_not_active")
          => /\ progVars' = progVars
             /\ openAiWs' = openAiWs /\ connection' = connection
             /\ pendingCutoffs' = pendingCutoffs
             /\ initPending' = initPending /\ coldOpenPending' = coldOpenPending
             /\ aiOut' = <<>> /\ twOut' = <<>>]_vars

\* the error arrives after a barge-in whose cancel was sent, the call still up
C31_Witness ==
    /\ ev.kind = "error" /\ ev.code = "response_cancel_not_active"
    /\ hist.cancelled # {} /\ userSpeaking
    /\ connection = "OPEN" /\ openAiWs = "OPEN" /\ ~billed

\* C32: the duration reported to the accounting collaborator is
\* max(1, ceil(wall-clock ms since start / 1000), ceil(last media timestamp / 1000)),
\* hence at least 1 and at least each of the two elapsed times.
C32_ReportedDuration ==
    (ev.kind \in {"stop", "close"} /\ ev.fired)
        => ev.seconds = Max(1, Max(ceilDiv(now - callStartedAt, 1000),
                                   ceilDiv(latestMediaTimestamp, 1000)))

appendsSent(msgs) == SelectSeq(msgs, LAMBDA m : m.type = "input_audio_buffer.append")

\* C33: every inbound media frame handled while the AI socket is open is appended
\* to the AI leg exactly once, during the step that handles it and with its own
\* payload, whatever the turn state and also on the frame on which the local
\* detector fires; no other step appends. The appends are therefore the frames
\* received, once each and in arrival order.
C33_AppendEveryFrame ==
    [][IF ev'.kind = "media" \/ (ev'.kind = "speech" /\ ev'.src = "local")
       THEN IF openAiWs = "OPEN"
            THEN /\ Len(appendsSent(aiOut')) = 1
                 /\ appendsSent(aiOut')[1].audio = ev'.payload
                 /\ aiOut'[Len(aiOut')].type = "input_audio_buffer.append"
            ELSE appendsSent(aiOut') = <<>>
       ELSE appendsSent(aiOut') = <<>>]_vars

\* the frame on which the local detector fires, appended after the cancel
C33_Witness ==
    /\ ev.kind = "speech" /\ ev.src = "local" /\ ev.fired
    /\ Len(aiOut) > 1
    /\ appendsSent(aiOut) # <<>>
    /\ dropAudioUntilNextResponse

\* ITU-T G.711 mu-law expansion of byte b to a linear sample:
\* t = (((u & 0x0F) << 3) + 0x84) << exponent, sample = sign ? 0x84 - t : t - 0x84
G711Expand(b) ==
    LET u == 255 - b
        sign == u \div 128
        exponent == (u \div 16) % 8
        mantissa == u % 16
        t == ((mantissa * 8) + 132) * Pow2(exponent)
    IN IF sign # 0 THEN 132 - t ELSE t - 132

Abs(x) == IF x < 0 THEN 0 - x ELSE x

\* C34: for every byte value the magnitude computed by muLawAvgAbs is the absolute
\* value of the standard G.711 mu-law expansion of that byte.
C34_DecodeIsG711 ==
    ev.kind = "measure" => ev.amp = Abs(G711Expand(ev.payload[1]))

\* C35: at most one cutoff timer is pending at any time, and a pending cutoff
\* timer is the one cutoffTimer refers to.
C35_OnePendingCutoff ==
    /\ Cardinality(pendingCutoffs) <= 1
    /\ \A t \in pendingCutoffs : t = cutoffTimer

\* C36: while the session has received no start event, or has no caller identity,
\* no accounting report has been made and billed is false; in particular a stop
\* or a close in that situation deducts nothing.
C36_NoReportWithoutStartOrCaller ==
    (hist.nStarts = 0 \/ caller = Null)
        => /\ ~billed
           /\ hist.deductCalls = 0
           /\ ev.kind \in {"stop", "close"} => ~ev.fired

\* a connection with a caller identity that closes before any start event
C36_Witness ==
    /\ ev.kind = "close"
    /\ hist.nStarts = 0
    /\ caller = User /\ ~isUnlimited
    /\ connection = "CLOSED"

\* C37: a call is admitted only when secondsLeft > 0, and the budget of an admitted
\* call, as replied in the TwiML and as taken over by the media stream, is positive,
\* at most secondsLeft, and at most PER_CALL_CAP_S when that cap is positive.
C37_BudgetWithinBounds ==
    twiml.kind = "stream"
        => /\ hist.left > 0
           /\ 0 < twiml.max /\ twiml.max <= hist.left
           /\ PER_CALL_CAP_S > 0 => twiml.max <= PER_CALL_CAP_S
           /\ connection # "NONE" => maxThisCall = twiml.max

\* a caller with more seconds left than the cap, admitted and connected
C37_Witness ==
    /\ twiml.kind = "stream"
    /\ hist.left > PER_CALL_CAP_S
    /\ connection = "OPEN"
    /\ maxThisCall = PER_CALL_CAP_S

\* a step in which deductSeconds call p writes the balance
deductWrites(p) ==
    /\ calls[p].fn = "deductSeconds" /\ calls[p].pc = "loaded"
    /\ calls'[p].pc = "updated"

\* C38: the stored balance is never negative and totalSecondsLeft is never
\* negative, whatever deductSeconds and addPaidSeconds calls are made; and a
\* deductSeconds of s seconds that writes the balance lowers the stored balance
\* by min(balance, ceil(s / RBT_TO_SECONDS)).
C38_BalanceNeverNegative ==
    /\ [](Contact.rbt >= 0 /\ totalSecondsLeft >= 0)
    /\ [][\A p \in Procs :
            deductWrites(p)
                => Contact'.rbt = Contact.rbt
                                    - Min(Contact.rbt, tokensOf(calls[p].seconds))]_vars

\* C39: once the telephony socket has closed, no step hands a media or mark
\* command to it and no step appends to the mark queue, also when audio deltas
\* still arrive from the AI socket before it has finished closing.
C39_NothingAfterTelephonyClose ==
    [][connection = "CLOSED"
         => /\ mediaSent(twOut') = <<>>
            /\ marksSent(twOut') = <<>>
            /\ Len(markQueue') <= Len(markQueue)]_vars
====
